---- MODULE Spec2Model ----
(***************************************************************************)
(* Partial-order alignment graph of src/graph.cpp: construction from a    *)
(* first sequence, add_alignment, the cached topological order, the       *)
(* heaviest-bundle consensus with branch completion, and MSA generation.  *)
(*                                                                         *)
(* Node ids, sequence positions and sequence labels are 0-based as in the *)
(* source; TLA+ sequences are 1-based, so At(s, i) reads element i of a   *)
(* 0-based vector.  A string is a sequence of one-letter strings.         *)
(* Weights are floats in the source; the model draws them from small      *)
(* non-negative integers, whose sums are exact in float arithmetic.       *)
(* assert() is modelled as armed (no NDEBUG): a failed assertion ends the *)
(* program, recorded in the variable fatal.                                *)
(***************************************************************************)
EXTENDS Integers, Sequences, FiniteSets, TLC

(***************************************************************************)
(* Bounds of the model.                                                    *)
(***************************************************************************)
\* longest sequence handed to the constructor or to add_alignment
MaxLen == 2
\* largest num_sequences_ the model builds
MaxSeqs == 2

\* letters of the sequences of the general specification
Alphabet == {"A", "C"}
\* uniform weights of the general specification (0 is quality '!')
UniformWeights == {0, 1}

At(s, i) == s[i + 1]

Range(s) == {s[k] : k \in 1..Len(s)}

NoError == "none"
NotADag == "Graph is not a DAG!"
NotSorted == "is_topologically_sorted() == true"
SizeMismatch == "nodes_.size() == sorted_nodes_ids_.size()"
BadEdge == "begin_node_id < num_nodes_ && end_node_id < num_nodes_"
OutOfBounds == "out-of-bounds access"

(***************************************************************************)
(* Node and Edge objects (node.hpp, edge.hpp).                             *)
(***************************************************************************)
createNode(id, letter, type) ==
    [id |-> id, letter |-> letter, type |-> type,
     in_edges |-> <<>>, out_edges |-> <<>>, aligned_nodes_ids |-> <<>>]

createEdge(begin_node_id, end_node_id, label, weight) ==
    [begin_node_id |-> begin_node_id, end_node_id |-> end_node_id,
     sequence_labels |-> <<label>>, sequence_weights |-> <<weight>>,
     total_weight |-> weight]

Edge_add_sequence(edge, label, weight) ==
    [edge EXCEPT !.sequence_labels = Append(@, label),
                 !.sequence_weights = Append(@, weight),
                 !.total_weight = @ + weight]

(***************************************************************************)
(* The Graph object.  The operators below work on a record g holding the   *)
(* Graph's fields; edges is the heap of the shared Edge objects, which the *)
(* nodes' in_edges and out_edges point into (1-based indices).             *)
(***************************************************************************)
VARIABLES
    nodes_, edges, num_nodes_, num_sequences_, alphabet_,
    is_sorted_, sorted_nodes_ids_, sequences_start_nodes_ids_, consensus_,
    fatal,
    \* locals of traverse_heaviest_bundle while its loop runs
    pc, scores, predecessors, max_score_id, node_id_to_rank, caller,
    \* the rank passed to the last branch_completion call of the last query and
    \* the rank of the node it returned (-1: no call)
    rank_arg, rank_ret,
    \* result of the last generate_msa / generate_consensus call
    dst, msa_node_ids, consensus_str,
    \* last completed public operation
    op,
    \* history: the sequences, weights and node paths inserted so far
    sequences, seq_weights, paths

graph_vars == <<nodes_, edges, num_nodes_, num_sequences_, alphabet_,
                is_sorted_, sorted_nodes_ids_, sequences_start_nodes_ids_, fatal>>
local_vars == <<pc, scores, predecessors, max_score_id, node_id_to_rank, caller,
                rank_arg, rank_ret>>
out_vars == <<dst, msa_node_ids, consensus_str>>
hist_vars == <<sequences, seq_weights, paths>>
vars == <<graph_vars, consensus_, local_vars, out_vars, op, hist_vars>>

Self ==
    [nodes_ |-> nodes_, edges |-> edges, num_nodes_ |-> num_nodes_,
     num_sequences_ |-> num_sequences_, alphabet_ |-> alphabet_,
     is_sorted_ |-> is_sorted_, sorted_nodes_ids_ |-> sorted_nodes_ids_,
     sequences_start_nodes_ids_ |-> sequences_start_nodes_ids_,
     fatal |-> fatal]

EmptyGraph ==
    [nodes_ |-> <<>>, edges |-> <<>>, num_nodes_ |-> 0, num_sequences_ |-> 0,
     alphabet_ |-> {}, is_sorted_ |-> FALSE, sorted_nodes_ids_ |-> <<>>,
     sequences_start_nodes_ids_ |-> <<>>, fatal |-> NoError]

Store(g) ==
    /\ nodes_' = g.nodes_
    /\ edges' = g.edges
    /\ num_nodes_' = g.num_nodes_
    /\ num_sequences_' = g.num_sequences_
    /\ alphabet_' = g.alphabet_
    /\ is_sorted_' = g.is_sorted_
    /\ sorted_nodes_ids_' = g.sorted_nodes_ids_
    /\ sequences_start_nodes_ids_' = g.sequences_start_nodes_ids_
    /\ fatal' = g.fatal

\* the fields of a freshly constructed Graph
Constructed(g) ==
    /\ nodes_ = g.nodes_
    /\ edges = g.edges
    /\ num_nodes_ = g.num_nodes_
    /\ num_sequences_ = g.num_sequences_
    /\ alphabet_ = g.alphabet_
    /\ is_sorted_ = g.is_sorted_
    /\ sorted_nodes_ids_ = g.sorted_nodes_ids_
    /\ sequences_start_nodes_ids_ = g.sequences_start_nodes_ids_
    /\ fatal = g.fatal

in_edges(g, node_id) == At(g.nodes_, node_id).in_edges
out_edges(g, node_id) == At(g.nodes_, node_id).out_edges
aligned_nodes_ids(g, node_id) == At(g.nodes_, node_id).aligned_nodes_ids

(***************************************************************************)
(* Graph mutation.                                                         *)
(***************************************************************************)
\* add_node returns the old num_nodes_ as the new node's id
add_node(g, letter, type) ==
    [g EXCEPT !.nodes_ = Append(@, createNode(g.num_nodes_, letter, type)),
              !.num_nodes_ = @ + 1]

\* add_edge without the search for an existing edge
add_edge_never_merges(g, begin_node_id, end_node_id, weight) ==
    LET e == Len(g.edges) + 1
    IN  [g EXCEPT
           !.edges = Append(@, createEdge(begin_node_id, end_node_id,
                                          g.num_sequences_, weight)),
           !.nodes_ = [n \in 1..Len(g.nodes_) |->
               LET a == IF n = begin_node_id + 1
                        THEN [g.nodes_[n] EXCEPT !.out_edges = Append(@, e)]
                        ELSE g.nodes_[n]
               IN  IF n = end_node_id + 1
                   THEN [a EXCEPT !.in_edges = Append(@, e)]
                   ELSE a]]

add_edge(g, begin_node_id, end_node_id, weight) ==
    IF ~(begin_node_id < g.num_nodes_ /\ end_node_id < g.num_nodes_)
    THEN [g EXCEPT !.fatal = BadEdge]
    ELSE
    LET outs == out_edges(g, begin_node_id)
        hits == {k \in 1..Len(outs) : g.edges[outs[k]].end_node_id = end_node_id}
    IN  IF hits # {}
        THEN LET k == CHOOSE k \in hits : \A j \in hits : k <= j
             IN  [g EXCEPT !.edges[outs[k]] =
                               Edge_add_sequence(@, g.num_sequences_, weight)]
        ELSE LET e == Len(g.edges) + 1
             IN  [g EXCEPT
                    !.edges = Append(@, createEdge(begin_node_id, end_node_id,
                                                   g.num_sequences_, weight)),
                    !.nodes_ = [n \in 1..Len(g.nodes_) |->
                        LET a == IF n = begin_node_id + 1
                                 THEN [g.nodes_[n] EXCEPT !.out_edges = Append(@, e)]
                                 ELSE g.nodes_[n]
                        IN  IF n = end_node_id + 1
                            THEN [a EXCEPT !.in_edges = Append(@, e)]
                            ELSE a]]

RECURSIVE add_sequence_loop(_, _, _, _, _)
add_sequence_loop(g, sequence, weights, i, end) ==
    IF i >= end \/ g.fatal # NoError THEN g
    ELSE LET node_id == g.num_nodes_
             g1 == add_node(g, At(sequence, i), 0)
             g2 == add_edge(g1, node_id - 1, node_id,
                            At(weights, i - 1) + At(weights, i))
         IN  add_sequence_loop(g2, sequence, weights, i + 1, end)

\* returns the graph and the id of the range's first node, or -1
add_sequence(g, sequence, weights, begin, end) ==
    IF begin = end THEN [g |-> g, id |-> -1]
    ELSE IF ~(begin < Len(sequence) /\ end <= Len(sequence))
    THEN [g |-> [g EXCEPT !.fatal = OutOfBounds], id |-> -1]
    ELSE [g |-> add_sequence_loop(add_node(g, At(sequence, begin), 0),
                                  sequence, weights, begin + 1, end),
          id |-> g.num_nodes_]

(***************************************************************************)
(* Topological sort.                                                       *)
(***************************************************************************)
RECURSIVE visit_node(_, _, _)
RECURSIVE visit_node_in_edges(_, _, _, _)

\* visit_node without its assertion
visit_node_unchecked(g, st, node_id) ==
    IF st.fatal # NoError THEN st
    ELSE IF At(st.marks, node_id) = 0
    THEN LET st1 == [st EXCEPT !.marks[node_id + 1] = 1]
             st2 == visit_node_in_edges(g, st1, node_id, 1)
         IN  IF st2.fatal # NoError THEN st2
             ELSE [st2 EXCEPT !.marks[node_id + 1] = 2,
                              !.dst = Append(@, node_id)]
    ELSE st

\* st = [dst, marks, fatal]; a failed assertion stops the walk
visit_node(g, st, node_id) ==
    IF st.fatal # NoError THEN st
    ELSE IF At(st.marks, node_id) = 1 THEN [st EXCEPT !.fatal = NotADag]
    ELSE IF At(st.marks, node_id) = 0
    THEN LET st1 == [st EXCEPT !.marks[node_id + 1] = 1]
             st2 == visit_node_in_edges(g, st1, node_id, 1)
         IN  IF st2.fatal # NoError THEN st2
             ELSE [st2 EXCEPT !.marks[node_id + 1] = 2,
                              !.dst = Append(@, node_id)]
    ELSE st

visit_node_in_edges(g, st, node_id, k) ==
    IF k > Len(in_edges(g, node_id)) \/ st.fatal # NoError THEN st
    ELSE visit_node_in_edges(g,
            visit_node(g, st, g.edges[in_edges(g, node_id)[k]].begin_node_id),
            node_id, k + 1)

\* [ok, fatal]: the inner assertion compares the sizes first
is_topologically_sorted(g, sorted) ==
    IF Len(g.nodes_) # Len(sorted) THEN [ok |-> FALSE, fatal |-> SizeMismatch]
    ELSE [ok |-> \A p \in 1..Len(sorted) :
                    \A k \in 1..Len(in_edges(g, sorted[p])) :
                        \E q \in 1..(p - 1) :
                            sorted[q] = g.edges[in_edges(g, sorted[p])[k]].begin_node_id,
          fatal |-> NoError]

RECURSIVE topological_sort_loop(_, _, _)
topological_sort_loop(g, st, i) ==
    IF st.fatal # NoError THEN st
    ELSE LET unmarked == {j \in i..(g.num_nodes_ - 1) : At(st.marks, j) = 0}
             i1 == IF unmarked = {} THEN g.num_nodes_
                   ELSE CHOOSE j \in unmarked : \A j2 \in unmarked : j <= j2
         IN  IF i1 = Len(g.nodes_) THEN st
             ELSE topological_sort_loop(g, visit_node(g, st, i1), i1)

topological_sort(g) ==
    IF g.is_sorted_ THEN g
    ELSE LET st == topological_sort_loop(g,
                     [dst |-> <<>>, marks |-> [n \in 1..g.num_nodes_ |-> 0],
                      fatal |-> NoError], 0)
             chk == is_topologically_sorted(g, st.dst)
         IN  IF st.fatal # NoError
             THEN [g EXCEPT !.sorted_nodes_ids_ = st.dst, !.fatal = st.fatal]
             ELSE IF chk.fatal # NoError
             THEN [g EXCEPT !.sorted_nodes_ids_ = st.dst, !.fatal = chk.fatal]
             ELSE IF ~chk.ok
             THEN [g EXCEPT !.sorted_nodes_ids_ = st.dst, !.fatal = NotSorted]
             ELSE [g EXCEPT !.sorted_nodes_ids_ = st.dst, !.is_sorted_ = TRUE]

(***************************************************************************)
(* add_alignment.                                                          *)
(***************************************************************************)
Node_add_aligned_node_id(node, id) ==
    [node EXCEPT !.aligned_nodes_ids = Append(@, id)]

RECURSIVE link_aligned_loop(_, _, _, _)
link_aligned_loop(g, new_node_id, aids, k) ==
    IF k > Len(aids) THEN g
    ELSE link_aligned_loop(
            [g EXCEPT !.nodes_[new_node_id + 1] = Node_add_aligned_node_id(@, aids[k]),
                      !.nodes_[aids[k] + 1] = Node_add_aligned_node_id(@, new_node_id)],
            new_node_id, aids, k + 1)

\* link_aligned without the loop over node_id's aligned set
link_aligned_to_node_only(g, new_node_id, node_id) ==
    [g EXCEPT !.nodes_[new_node_id + 1] = Node_add_aligned_node_id(@, node_id),
              !.nodes_[node_id + 1] = Node_add_aligned_node_id(@, new_node_id)]

\* the new variant node joins the aligned set of node_id and node_id itself
link_aligned(g, new_node_id, node_id) ==
    LET g1 == link_aligned_loop(g, new_node_id, aligned_nodes_ids(g, node_id), 1)
    IN  [g1 EXCEPT !.nodes_[new_node_id + 1] = Node_add_aligned_node_id(@, node_id),
                   !.nodes_[node_id + 1] = Node_add_aligned_node_id(@, new_node_id)]

\* first aligned node of node_id that holds letter, or -1
aligned_with_letter(g, node_id, letter) ==
    LET aids == aligned_nodes_ids(g, node_id)
        hits == {k \in 1..Len(aids) : At(g.nodes_, aids[k]).letter = letter}
    IN  IF hits = {} THEN -1
        ELSE aids[CHOOSE k \in hits : \A j \in hits : k <= j]

\* one aligned column: [g, new_node_id]
resolve_column(g, node_id, letter) ==
    IF node_id = -1
    THEN [g |-> add_node(g, letter, 0), new_node_id |-> g.num_nodes_]
    ELSE IF At(g.nodes_, node_id).letter = letter
    THEN [g |-> g, new_node_id |-> node_id]
    ELSE LET aligned_to_node_id == aligned_with_letter(g, node_id, letter)
         IN  IF aligned_to_node_id = -1
             THEN [g |-> link_aligned(add_node(g, letter, 1), g.num_nodes_, node_id),
                   new_node_id |-> g.num_nodes_]
             ELSE [g |-> g, new_node_id |-> aligned_to_node_id]

\* st = [g, start_node_id, head_node_id, prev_weight, path]; path is history
RECURSIVE add_alignment_loop(_, _, _, _, _, _)
add_alignment_loop(st, node_ids, seq_ids, sequence, weights, i) ==
    IF i >= Len(seq_ids) THEN st
    ELSE IF At(seq_ids, i) = -1
    THEN add_alignment_loop(st, node_ids, seq_ids, sequence, weights, i + 1)
    ELSE LET r == resolve_column(st.g, At(node_ids, i), At(sequence, At(seq_ids, i)))
             g2 == IF st.head_node_id # -1
                   THEN add_edge(r.g, st.head_node_id, r.new_node_id,
                                 st.prev_weight + At(weights, At(seq_ids, i)))
                   ELSE r.g
         IN  add_alignment_loop(
                [g |-> g2,
                 start_node_id |-> IF st.start_node_id = -1 THEN r.new_node_id
                                   ELSE st.start_node_id,
                 head_node_id |-> r.new_node_id,
                 prev_weight |-> At(weights, At(seq_ids, i)),
                 path |-> Append(st.path, r.new_node_id)],
                node_ids, seq_ids, sequence, weights, i + 1)

Ids(from, to) == [k \in 1..(to - from) |-> from + k - 1]

\* the insertion forgets to invalidate the cached order
set_unsorted_forgotten(g) == g

set_unsorted(g) == [g EXCEPT !.is_sorted_ = FALSE]

\* the sequence is registered, the order invalidated and recomputed
finish_insertion(g, start_node_id) ==
    topological_sort(set_unsorted(
        [g EXCEPT !.num_sequences_ = @ + 1,
                  !.sequences_start_nodes_ids_ = Append(@, start_node_id)]))

\* [g, path]: the graph after the call and the node ids the sequence runs over
add_alignment(g0, node_ids, seq_ids, sequence, weights) ==
    LET g == [g0 EXCEPT !.alphabet_ = @ \cup Range(sequence)]
    IN
    IF Len(seq_ids) = 0
    THEN LET a == add_sequence(g, sequence, weights, 0, Len(sequence))
         IN  [g |-> finish_insertion(a.g, a.id),
              path |-> Ids(g.num_nodes_, a.g.num_nodes_)]
    ELSE
    LET valid_seq_ids == SelectSeq(seq_ids, LAMBDA s : s # -1)
        front == valid_seq_ids[1]
        back == valid_seq_ids[Len(valid_seq_ids)]
        tmp == g.num_nodes_
        h == add_sequence(g, sequence, weights, 0, front)
        head_node_id == IF tmp = h.g.num_nodes_ THEN -1 ELSE h.g.num_nodes_ - 1
        t == add_sequence(h.g, sequence, weights, back + 1, Len(sequence))
        prev_weight == IF head_node_id = -1 THEN 0 ELSE At(weights, front - 1)
        st == add_alignment_loop(
                [g |-> t.g, start_node_id |-> h.id, head_node_id |-> head_node_id,
                 prev_weight |-> prev_weight, path |-> <<>>],
                node_ids, seq_ids, sequence, weights, 0)
        g3 == IF t.id # -1
              THEN add_edge(st.g, st.head_node_id, t.id,
                            st.prev_weight + At(weights, back + 1))
              ELSE st.g
    IN  [g |-> finish_insertion(g3, st.start_node_id),
         path |-> Ids(tmp, h.g.num_nodes_) \o st.path
                    \o Ids(h.g.num_nodes_, t.g.num_nodes_)]

\* Graph::Graph
Graph(sequence, weights) ==
    LET g == [EmptyGraph EXCEPT !.alphabet_ = Range(sequence)]
        a == add_sequence(g, sequence, weights, 0, Len(sequence))
    IN  topological_sort(
            [a.g EXCEPT !.sequences_start_nodes_ids_ = Append(@, a.id),
                        !.num_sequences_ = @ + 1])

(***************************************************************************)
(* Heaviest bundle.                                                        *)
(***************************************************************************)
\* what scores[predecessors[node_id]] can read when predecessors[node_id] is
\* -1: the float in front of the vector's storage, any value at all
GarbageScores == {-1000, 1, 1000}

score_of(score_vec, id, garbage) == IF id = -1 THEN garbage ELSE At(score_vec, id)

\* the update rule shared by traverse_heaviest_bundle and branch_completion;
\* t = [scores, predecessors]
\* the tie-break with < for <=
takes_edge_strict_tie(t, node_id, edge, garbage) ==
    \/ At(t.scores, node_id) < edge.total_weight
    \/ /\ At(t.scores, node_id) = edge.total_weight
       /\ score_of(t.scores, At(t.predecessors, node_id), garbage)
            < At(t.scores, edge.begin_node_id)

\* the first comparison against the initial score instead of the current one
takes_edge_any_positive(t, node_id, edge, garbage) ==
    \/ 0 < edge.total_weight
    \/ /\ At(t.scores, node_id) = edge.total_weight
       /\ score_of(t.scores, At(t.predecessors, node_id), garbage)
            <= At(t.scores, edge.begin_node_id)

takes_edge(t, node_id, edge, garbage) ==
    \/ At(t.scores, node_id) < edge.total_weight
    \/ /\ At(t.scores, node_id) = edge.total_weight
       /\ score_of(t.scores, At(t.predecessors, node_id), garbage)
            <= At(t.scores, edge.begin_node_id)

consider_edge(t, node_id, edge, garbage) ==
    IF takes_edge(t, node_id, edge, garbage)
    THEN [t EXCEPT !.scores[node_id + 1] = edge.total_weight,
                   !.predecessors[node_id + 1] = edge.begin_node_id]
    ELSE t

add_predecessor_score(t, node_id) ==
    IF At(t.predecessors, node_id) # -1
    THEN [t EXCEPT !.scores[node_id + 1] = @ + At(t.scores, At(t.predecessors, node_id))]
    ELSE t

RECURSIVE score_node(_, _, _, _, _)
score_node(g, t, node_id, k, garbage) ==
    IF k > Len(in_edges(g, node_id)) THEN t
    ELSE score_node(g,
            consider_edge(t, node_id, g.edges[in_edges(g, node_id)[k]], garbage),
            node_id, k + 1, garbage)

\* t = [scores, predecessors, max_score_id]
RECURSIVE score_nodes(_, _, _, _)
score_nodes(g, t, p, garbage) ==
    IF p > Len(g.sorted_nodes_ids_) THEN t
    ELSE LET node_id == g.sorted_nodes_ids_[p]
             t1 == add_predecessor_score(score_node(g, t, node_id, 1, garbage), node_id)
             t2 == IF At(t1.scores, t1.max_score_id) < At(t1.scores, node_id)
                   THEN [t1 EXCEPT !.max_score_id = node_id]
                   ELSE t1
         IN  score_nodes(g, t2, p + 1, garbage)

initial_scores(g, garbage) ==
    score_nodes(g, [scores |-> [n \in 1..g.num_nodes_ |-> 0],
                    predecessors |-> [n \in 1..g.num_nodes_ |-> -1],
                    max_score_id |-> 0], 1, garbage)

rank_table(g) ==
    [n \in 1..g.num_nodes_ |->
        LET ps == {p \in 1..Len(g.sorted_nodes_ids_) : g.sorted_nodes_ids_[p] = n - 1}
        IN  IF ps = {} THEN 0 ELSE (CHOOSE p \in ps : \A q \in ps : q <= p) - 1]

\* scores of the other predecessors of node_id's successors become -1
invalidate_siblings(g, score_vec, node_id) ==
    LET hit == {g.edges[o].begin_node_id :
                   o \in UNION {Range(in_edges(g, g.edges[e].end_node_id)) :
                                   e \in Range(out_edges(g, node_id))}} \ {node_id}
    IN  [n \in 1..Len(score_vec) |-> IF (n - 1) \in hit THEN -1 ELSE score_vec[n]]

RECURSIVE rescore_node(_, _, _, _, _)
rescore_node(g, t, node_id, k, garbage) ==
    IF k > Len(in_edges(g, node_id)) THEN t
    ELSE LET edge == g.edges[in_edges(g, node_id)[k]]
         IN  rescore_node(g,
                IF At(t.scores, edge.begin_node_id) = -1 THEN t
                ELSE consider_edge(t, node_id, edge, garbage),
                node_id, k + 1, garbage)

\* t = [scores, predecessors, max_score, max_score_id]; p is a 1-based position
RECURSIVE rescore_nodes(_, _, _, _)
rescore_nodes(g, t, p, garbage) ==
    IF p > Len(g.sorted_nodes_ids_) THEN t
    ELSE LET node_id == g.sorted_nodes_ids_[p]
             t0 == [t EXCEPT !.scores[node_id + 1] = -1,
                             !.predecessors[node_id + 1] = -1]
             t1 == add_predecessor_score(rescore_node(g, t0, node_id, 1, garbage), node_id)
             t2 == IF t1.max_score < At(t1.scores, node_id)
                   THEN [t1 EXCEPT !.max_score = At(t1.scores, node_id),
                                   !.max_score_id = node_id]
                   ELSE t1
         IN  rescore_nodes(g, t2, p + 1, garbage)

\* [scores, predecessors, max_score, max_score_id]; max_score_id is returned
branch_completion(g, score_vec, pred_vec, rank, garbage) ==
    rescore_nodes(g,
        [scores |-> invalidate_siblings(g, score_vec, At(g.sorted_nodes_ids_, rank)),
         predecessors |-> pred_vec, max_score |-> 0, max_score_id |-> 0],
        rank + 2, garbage)

Reverse(s) == [k \in 1..Len(s) |-> s[Len(s) + 1 - k]]

RECURSIVE traceback_loop(_, _)
traceback_loop(preds, id) ==
    IF At(preds, id) = -1 THEN <<id>>
    ELSE <<id>> \o traceback_loop(preds, At(preds, id))

\* the traceback without std::reverse
traceback_unreversed(preds, id) == traceback_loop(preds, id)

traceback(preds, id) == Reverse(traceback_loop(preds, id))

letters_of(g, ids) == [k \in 1..Len(ids) |-> At(g.nodes_, ids[k]).letter]

(***************************************************************************)
(* MSA generation.                                                         *)
(***************************************************************************)
RECURSIVE visit_node_rigorously(_, _, _)
RECURSIVE visit_rigorously_in_edges(_, _, _, _)
RECURSIVE visit_rigorously_aligned(_, _, _, _)

RECURSIVE emit_aligned(_, _, _)
emit_aligned(st, aids, k) ==
    IF k > Len(aids) THEN st
    ELSE emit_aligned([st EXCEPT !.marks[aids[k] + 1] = 2,
                                 !.dst = Append(@, aids[k])], aids, k + 1)

visit_node_rigorously(g, st, node_id) ==
    IF st.fatal # NoError THEN st
    ELSE IF At(st.marks, node_id) = 1 THEN [st EXCEPT !.fatal = NotADag]
    ELSE IF At(st.marks, node_id) = 0
    THEN LET node == At(g.nodes_, node_id)
             st1 == [st EXCEPT !.marks[node_id + 1] = 1]
             st2 == visit_rigorously_in_edges(g, st1, node_id, 1)
             st3 == IF node.type = 0
                    THEN visit_rigorously_aligned(g, st2, node_id, 1)
                    ELSE st2
         IN  IF st3.fatal # NoError THEN st3
             ELSE IF node.type = 0
             THEN emit_aligned([st3 EXCEPT !.marks[node_id + 1] = 2,
                                           !.dst = Append(@, node_id)],
                               node.aligned_nodes_ids, 1)
             ELSE st3
    ELSE st

visit_rigorously_in_edges(g, st, node_id, k) ==
    IF k > Len(in_edges(g, node_id)) \/ st.fatal # NoError THEN st
    ELSE visit_rigorously_in_edges(g,
            visit_node_rigorously(g, st, g.edges[in_edges(g, node_id)[k]].begin_node_id),
            node_id, k + 1)

visit_rigorously_aligned(g, st, node_id, k) ==
    IF k > Len(aligned_nodes_ids(g, node_id)) \/ st.fatal # NoError THEN st
    ELSE visit_rigorously_aligned(g,
            visit_node_rigorously(g, st, aligned_nodes_ids(g, node_id)[k]),
            node_id, k + 1)

RECURSIVE rigorous_sort_loop(_, _, _)
rigorous_sort_loop(g, st, p) ==
    IF p > Len(g.sorted_nodes_ids_) \/ st.fatal # NoError THEN st
    ELSE rigorous_sort_loop(g, visit_node_rigorously(g, st, g.sorted_nodes_ids_[p]), p + 1)

\* [dst, marks, fatal]: the rigorous order, with the size assertion of the
\* is_topologically_sorted call that follows the swap
rigorous_sort(g) ==
    LET st == rigorous_sort_loop(g,
                [dst |-> <<>>, marks |-> [n \in 1..g.num_nodes_ |-> 0],
                 fatal |-> NoError], 1)
    IN  IF st.fatal # NoError THEN st
        ELSE [st EXCEPT !.fatal = is_topologically_sorted(g, st.dst).fatal]

\* a = [ids, base_counter, fatal]; i and the ++i of the inner loop are 0-based
RECURSIVE assign_aligned(_, _, _, _, _)
assign_aligned(a, order, i, j, size) ==
    IF j >= size \/ a.fatal # NoError THEN [a |-> a, i |-> i]
    ELSE IF i + 1 >= Len(order)
    THEN [a |-> [a EXCEPT !.fatal = OutOfBounds], i |-> i + 1]
    ELSE assign_aligned([a EXCEPT !.ids[At(order, i + 1) + 1] = a.base_counter],
                        order, i + 1, j + 1, size)

RECURSIVE assign_msa_ids(_, _, _, _)
assign_msa_ids(g, a, order, i) ==
    IF i >= g.num_nodes_ \/ a.fatal # NoError THEN a
    ELSE LET node_id == At(order, i)
         IN  IF At(g.nodes_, node_id).type = 0
             THEN LET a1 == [a EXCEPT !.ids[node_id + 1] = a.base_counter]
                      r == assign_aligned(a1, order, i, 0,
                                          Len(aligned_nodes_ids(g, node_id)))
                  IN  assign_msa_ids(g, [r.a EXCEPT !.base_counter = @ + 1],
                                     order, r.i + 1)
             ELSE assign_msa_ids(g, a, order, i + 1)

\* the replay follows the first out-edge, whatever its labels
next_node_first_edge(g, prev_node_id, i) ==
    LET outs == out_edges(g, prev_node_id)
        hits == {k \in 1..Len(outs) : g.edges[outs[k]].end_node_id # prev_node_id}
    IN  IF hits = {} THEN prev_node_id
        ELSE g.edges[outs[CHOOSE k \in hits : \A j \in hits : k <= j]].end_node_id

\* the node the replay of sequence i moves to from prev_node_id (itself: stop)
next_node(g, prev_node_id, i) ==
    LET outs == out_edges(g, prev_node_id)
        hits == {k \in 1..Len(outs) :
                    /\ i \in Range(g.edges[outs[k]].sequence_labels)
                    /\ g.edges[outs[k]].end_node_id # prev_node_id}
    IN  IF hits = {} THEN prev_node_id
        ELSE g.edges[outs[CHOOSE k \in hits : \A j \in hits : k <= j]].end_node_id

\* r = [str, visited, fatal]
RECURSIVE replay(_, _, _, _, _)
replay(g, ids, i, curr_node_id, r) ==
    IF At(ids, curr_node_id) < 0 \/ At(ids, curr_node_id) >= Len(r.str)
    THEN [r EXCEPT !.fatal = OutOfBounds]
    ELSE LET r1 == [r EXCEPT !.str[At(ids, curr_node_id) + 1] =
                                  At(g.nodes_, curr_node_id).letter,
                             !.visited = Append(@, curr_node_id)]
             next == next_node(g, curr_node_id, i)
         IN  IF next = curr_node_id THEN r1
             ELSE replay(g, ids, i, next, r1)

gap_row(width) == [c \in 1..width |-> "-"]

\* the row of a list of nodes (the consensus row)
place_nodes(g, ids, width, node_list) ==
    [c \in 1..width |->
        LET ks == {k \in 1..Len(node_list) : At(ids, node_list[k]) = c - 1}
        IN  IF ks = {} THEN "-"
            ELSE At(g.nodes_, node_list[CHOOSE k \in ks : \A j \in ks : j <= k]).letter]

\* [rows, walks, ids, base_counter, fatal] of generate_msa before the consensus row
msa_rows(g) ==
    LET st == rigorous_sort(g)
        a == assign_msa_ids(g, [ids |-> [n \in 1..g.num_nodes_ |-> -1],
                                base_counter |-> 0, fatal |-> NoError], st.dst, 0)
        rs == [i \in 1..g.num_sequences_ |->
                 replay(g, a.ids, i - 1, g.sequences_start_nodes_ids_[i],
                        [str |-> gap_row(a.base_counter), visited |-> <<>>,
                         fatal |-> NoError])]
        bad == {i \in 1..g.num_sequences_ : rs[i].fatal # NoError}
    IN  IF st.fatal # NoError
        THEN [rows |-> <<>>, walks |-> <<>>, ids |-> <<>>, base_counter |-> 0,
              order |-> st.dst, fatal |-> st.fatal]
        ELSE IF a.fatal # NoError
        THEN [rows |-> <<>>, walks |-> <<>>, ids |-> a.ids, base_counter |-> 0,
              order |-> st.dst, fatal |-> a.fatal]
        ELSE [rows |-> [i \in 1..g.num_sequences_ |-> rs[i].str],
              walks |-> [i \in 1..g.num_sequences_ |-> rs[i].visited],
              ids |-> a.ids, base_counter |-> a.base_counter, order |-> st.dst,
              fatal |-> IF bad = {} THEN NoError ELSE OutOfBounds]

(***************************************************************************)
(* Inputs.                                                                 *)
(***************************************************************************)
\* PHRED offset of the quality overloads
PhredOffset == 33

uniform_weights(sequence, weight) == [k \in 1..Len(sequence) |-> weight]

\* a quality string is a sequence of character codes
quality_weights(quality) == [k \in 1..Len(quality) |-> quality[k] - PhredOffset]

Strings(letters, max_len) == UNION {[1..n -> letters] : n \in 1..max_len}

\* sequence and weights as the uniform-weight overloads pass them on
UniformInputs(letters, max_len, ws) ==
    {[sequence |-> q, weights |-> uniform_weights(q, w)] :
        q \in Strings(letters, max_len), w \in ws}

\* sequence and weights as the quality overloads pass them on
QualityInputs(letters, max_len, codes) ==
    UNION {{[sequence |-> q, weights |-> quality_weights(ql)] :
                q \in [1..n -> letters], ql \in [1..n -> codes]} : n \in 1..max_len}

\* The correspondences an aligner hands over for a sequence of length len and a
\* graph of n nodes: none, or sequence positions first..last in order, each
\* against a graph node or -1, optionally after a column that has no sequence
\* position.  Graph nodes are unconstrained, so cyclic results are included.
Correspondences(len, n) ==
    {[node_ids |-> <<>>, seq_ids |-> <<>>]} \cup
    UNION {UNION {
        LET cols == last - first + 1
            sids == [k \in 1..cols |-> first + k - 1]
        IN  {[node_ids |-> nids, seq_ids |-> sids] : nids \in [1..cols -> -1..(n - 1)]}
            \cup {[node_ids |-> <<0>> \o nids, seq_ids |-> <<-1>> \o sids] :
                    nids \in [1..cols -> -1..(n - 1)]}
        : last \in first..(len - 1)} : first \in 0..(len - 1)}

(***************************************************************************)
(* Operations.                                                             *)
(***************************************************************************)
Idle == pc = "idle" /\ fatal = NoError

ResetLocals ==
    /\ pc' = "idle"
    /\ scores' = <<>>
    /\ predecessors' = <<>>
    /\ max_score_id' = 0
    /\ node_id_to_rank' = <<>>
    /\ caller' = "none"

Construct(input) ==
    /\ Constructed(Graph(input.sequence, input.weights))
    /\ consensus_ = <<>>
    /\ pc = "idle" /\ scores = <<>> /\ predecessors = <<>> /\ max_score_id = 0
    /\ node_id_to_rank = <<>> /\ caller = "none" /\ rank_arg = -1 /\ rank_ret = -1
    /\ dst = <<>> /\ msa_node_ids = <<>> /\ consensus_str = <<>>
    /\ op = "Graph"
    /\ sequences = <<input.sequence>>
    /\ seq_weights = <<input.weights>>
    /\ paths = <<[k \in 1..Len(input.sequence) |-> k - 1]>>

AddAlignment(alignment, sequence, weights) ==
    /\ Idle
    /\ LET r == add_alignment(Self, alignment.node_ids, alignment.seq_ids,
                              sequence, weights)
       IN  /\ Store(r.g)
           /\ paths' = Append(paths, r.path)
    /\ sequences' = Append(sequences, sequence)
    /\ seq_weights' = Append(seq_weights, weights)
    /\ ResetLocals
    /\ rank_arg' = -1 /\ rank_ret' = -1
    /\ dst' = <<>> /\ msa_node_ids' = <<>> /\ consensus_str' = <<>>
    /\ op' = "add_alignment"
    /\ UNCHANGED consensus_

\* the end of traverse_heaviest_bundle, and of the call that ran it
Traceback(preds, id, rows, ids, who) ==
    LET path == traceback(preds, id)
    IN  /\ consensus_' = path
        /\ consensus_str' = IF who = "generate_consensus"
                            THEN letters_of(Self, path) ELSE <<>>
        /\ dst' = IF who = "generate_msa"
                  THEN Append(rows, place_nodes(Self, ids,
                                  IF rows = <<>> THEN 0 ELSE Len(rows[1]), path))
                  ELSE <<>>
        /\ msa_node_ids' = ids
        /\ op' = who
        /\ ResetLocals

\* traverse_heaviest_bundle up to its loop
Traverse(garbage, rows, ids, who) ==
    LET t == initial_scores(Self, garbage)
    IN  IF Len(out_edges(Self, t.max_score_id)) # 0
        THEN /\ pc' = "branch_completion"
             /\ scores' = t.scores
             /\ predecessors' = t.predecessors
             /\ max_score_id' = t.max_score_id
             /\ node_id_to_rank' = rank_table(Self)
             /\ caller' = who
             /\ dst' = rows
             /\ msa_node_ids' = ids
             /\ UNCHANGED <<consensus_, consensus_str, op>>
        ELSE Traceback(t.predecessors, t.max_score_id, rows, ids, who)

GenerateConsensus(garbage) ==
    /\ Idle
    /\ Traverse(garbage, <<>>, <<>>, "generate_consensus")
    /\ rank_arg' = -1 /\ rank_ret' = -1
    /\ UNCHANGED <<graph_vars, hist_vars>>

\* one iteration of the loop of traverse_heaviest_bundle
BranchCompletion(garbage) ==
    /\ pc = "branch_completion"
    /\ LET rank == At(node_id_to_rank, max_score_id)
           r == branch_completion(Self, scores, predecessors, rank, garbage)
       IN  /\ rank_arg' = rank
           /\ rank_ret' = At(node_id_to_rank, r.max_score_id)
           /\ IF Len(out_edges(Self, r.max_score_id)) # 0
              THEN /\ scores' = r.scores
                   /\ predecessors' = r.predecessors
                   /\ max_score_id' = r.max_score_id
                   /\ UNCHANGED <<pc, node_id_to_rank, caller, consensus_, out_vars, op>>
              ELSE Traceback(r.predecessors, r.max_score_id, dst, msa_node_ids, caller)
    /\ UNCHANGED <<graph_vars, hist_vars>>

\* garbage is read only by the traversal of include_consensus
GenerateMsa(include_consensus, garbage) ==
    /\ Idle
    /\ LET m == msa_rows(Self)
       IN  IF m.fatal # NoError
           THEN /\ fatal' = m.fatal
                /\ sorted_nodes_ids_' = IF m.fatal = NotADag THEN sorted_nodes_ids_
                                        ELSE m.order
                /\ dst' = <<>> /\ msa_node_ids' = <<>> /\ consensus_str' = <<>>
                /\ op' = "generate_msa"
                /\ UNCHANGED <<nodes_, edges, num_nodes_, num_sequences_, alphabet_,
                               is_sorted_, sequences_start_nodes_ids_, consensus_,
                               pc, scores, predecessors, max_score_id,
                               node_id_to_rank, caller>>
           ELSE /\ IF include_consensus
                   THEN Traverse(garbage, m.rows, m.ids, "generate_msa")
                   ELSE /\ dst' = m.rows
                        /\ msa_node_ids' = m.ids
                        /\ consensus_str' = <<>>
                        /\ op' = "generate_msa"
                        /\ UNCHANGED <<consensus_, pc, scores, predecessors,
                                       max_score_id, node_id_to_rank, caller>>
                /\ UNCHANGED graph_vars
    /\ rank_arg' = -1 /\ rank_ret' = -1
    /\ UNCHANGED hist_vars

\* The read of scores[-1] sits behind scores[node_id] == edge->total_weight()
\* with no predecessor chosen yet, where scores[node_id] is still 0 (-1 in
\* branch_completion): only a graph with such an edge weight can read it.
Garbage ==
    IF \E e \in 1..Len(edges) : edges[e].total_weight \in {0, -1}
    THEN GarbageScores ELSE {0}

Query ==
    \/ \E garbage \in Garbage : GenerateConsensus(garbage)
    \/ \E garbage \in Garbage : BranchCompletion(garbage)
    \/ GenerateMsa(FALSE, 0)
    \/ \E garbage \in Garbage : GenerateMsa(TRUE, garbage)

(***************************************************************************)
(* The general specification: every sequence over Alphabet up to MaxLen,   *)
(* uniform weights, every correspondence.                                  *)
(***************************************************************************)
Inputs == UniformInputs(Alphabet, MaxLen, UniformWeights)

Init == \E input \in Inputs : Construct(input)

Insert ==
    /\ num_sequences_ < MaxSeqs
    /\ \E input \in Inputs :
        \E alignment \in Correspondences(Len(input.sequence), num_nodes_) :
            AddAlignment(alignment, input.sequence, input.weights)

Next == Insert \/ Query

Spec == Init /\ [][Next]_vars

(***************************************************************************)
(* Per-position weights: sequences of one letter up to MaxQualityLen with  *)
(* quality strings over QualityCodes, every correspondence.                *)
(***************************************************************************)
MaxQualityLen == 3
QualityLetters == {"A"}
\* the quality characters '"' and '#', weights 1 and 2
QualityCodes == {34, 35}

InputsQuality == QualityInputs(QualityLetters, MaxQualityLen, QualityCodes)

InitQuality == \E input \in InputsQuality : Construct(input)

InsertQuality ==
    /\ num_sequences_ < MaxSeqs
    /\ \E input \in InputsQuality :
        \E alignment \in Correspondences(Len(input.sequence), num_nodes_) :
            AddAlignment(alignment, input.sequence, input.weights)

NextQuality == InsertQuality \/ Query

SpecQuality == InitQuality /\ [][NextQuality]_vars

(***************************************************************************)
(* Columns of several variants: three letters, a first sequence up to      *)
(* MaxLen and then single-letter sequences, every correspondence.          *)
(***************************************************************************)
MaxColumnSeqs == 3
ColumnLetters == {"A", "C", "G"}
ColumnWeights == {0}

InitColumns ==
    \E input \in UniformInputs(ColumnLetters, MaxLen, ColumnWeights) : Construct(input)

InsertColumns ==
    /\ num_sequences_ < MaxColumnSeqs
    /\ \E input \in UniformInputs(ColumnLetters, 1, ColumnWeights) :
        \E alignment \in Correspondences(Len(input.sequence), num_nodes_) :
            AddAlignment(alignment, input.sequence, input.weights)

NextColumns == InsertColumns \/ Query

SpecColumns == InitColumns /\ [][NextColumns]_vars

(***************************************************************************)
(* The substitution scenario: "ACGT", then one sequence of the same length *)
(* aligned position by position to nodes 0..3.                             *)
(***************************************************************************)
ScenarioFirst == <<"A", "C", "G", "T">>
ScenarioSecond == <<"A", "C", "C", "T">>
ScenarioLetters == Range(ScenarioFirst)

ScenarioAlignment ==
    [node_ids |-> [k \in 1..Len(ScenarioFirst) |-> k - 1],
     seq_ids |-> [k \in 1..Len(ScenarioFirst) |-> k - 1]]

InitScenario ==
    \E w \in UniformWeights :
        Construct([sequence |-> ScenarioFirst,
                   weights |-> uniform_weights(ScenarioFirst, w)])

InsertScenario ==
    /\ num_sequences_ < 2
    /\ \E q \in [1..Len(ScenarioFirst) -> ScenarioLetters], w \in UniformWeights :
          AddAlignment(ScenarioAlignment, q, uniform_weights(q, w))

NextScenario == InsertScenario \/ Query

SpecScenario == InitScenario /\ [][NextScenario]_vars

(***************************************************************************)
(* Properties.                                                             *)
(***************************************************************************)
EdgeIds == 1..Len(edges)
NodeIds == 0..(num_nodes_ - 1)
HasEdge(a, b) ==
    \E e \in EdgeIds : edges[e].begin_node_id = a /\ edges[e].end_node_id = b
EdgeWeight(a, b) ==
    edges[CHOOSE e \in EdgeIds :
            edges[e].begin_node_id = a /\ edges[e].end_node_id = b].total_weight
Position(order, id) == CHOOSE p \in 1..Len(order) : order[p] = id
Aligned(a) == Range(At(nodes_, a).aligned_nodes_ids)
Successors(S) == {edges[e].end_node_id : e \in {x \in EdgeIds : edges[x].begin_node_id \in S}}

RECURSIVE Grow(_, _)
Grow(S, k) == IF k = 0 THEN S ELSE Grow(S \cup Successors(S), k - 1)

HasCycle == \E n \in NodeIds : n \in Grow(Successors({n}), num_nodes_)

RECURSIVE SumOf(_, _)
SumOf(f(_), S) ==
    IF S = {} THEN 0
    ELSE LET x == CHOOSE x \in S : TRUE IN f(x) + SumOf(f, S \ {x})

Max(S) == CHOOSE x \in S : \A y \in S : y <= x

\* C1: whenever the constructor or add_alignment has returned (no assertion
\* has ended the program), is_sorted_ is true and sorted_nodes_ids_ is a
\* permutation of the node ids 0..num_nodes_-1 in which every edge's begin
\* node stands before its end node.
C1_CachedOrderIsLinearization ==
    fatal = NoError =>
        /\ is_sorted_
        /\ Len(nodes_) = num_nodes_
        /\ Len(sorted_nodes_ids_) = num_nodes_
        /\ Range(sorted_nodes_ids_) = NodeIds
        /\ \A e \in EdgeIds :
              Position(sorted_nodes_ids_, edges[e].begin_node_id)
                < Position(sorted_nodes_ids_, edges[e].end_node_id)

\* an add_alignment has returned with a node of two in-edges and an order
\* that is not the order of the ids
C1_Witness ==
    /\ fatal = NoError /\ op = "add_alignment" /\ num_sequences_ = 2
    /\ \E n \in NodeIds : Len(At(nodes_, n).in_edges) >= 2
    /\ \E p \in 1..(Len(sorted_nodes_ids_) - 1) :
          sorted_nodes_ids_[p] > sorted_nodes_ids_[p + 1]

\* the last call to return was o, and no call is running
Returned(o) == op = o /\ pc = "idle"

Degap(row) == SelectSeq(row, LAMBDA c : c # "-")

\* C2: whenever generate_msa has returned, for every sequence index i the
\* row dst[i] without its '-' characters is the i-th inserted sequence, and
\* the replay from sequences_start_nodes_ids_[i] along the out-edges labelled
\* i visits exactly the nodes the sequence was inserted on, which hold its
\* letters.
C2_MsaRoundTrip ==
    (Returned("generate_msa") /\ fatal = NoError) =>
        /\ Len(dst) >= num_sequences_
        /\ \A i \in 1..num_sequences_ :
              /\ Degap(dst[i]) = sequences[i]
              /\ msa_rows(Self).walks[i] = paths[i]
              /\ letters_of(Self, paths[i]) = sequences[i]

\* generate_msa has returned rows for two sequences, one with a gap, over a
\* graph with a variant node
C2_Witness ==
    /\ Returned("generate_msa") /\ fatal = NoError /\ num_sequences_ = 2
    /\ \E i \in 1..Len(dst) : "-" \in Range(dst[i])
    /\ \E n \in NodeIds : At(nodes_, n).type = 1

\* C4 (as claimed): every branch_completion call returns a node whose rank
\* in sorted_nodes_ids_ is strictly greater than the rank it was given.
C4_BranchCompletionAdvances ==
    rank_arg # -1 => rank_ret > rank_arg

Traversals(a, b) ==
    {t \in UNION {{<<i, k>> : k \in 1..(Len(paths[i]) - 1)} : i \in 1..Len(paths)} :
        paths[t[1]][t[2]] = a /\ paths[t[1]][t[2] + 1] = b}

Contribution(t) == seq_weights[t[1]][t[2]] + seq_weights[t[1]][t[2] + 1]

\* C6: there is at most one edge for each ordered pair (begin, end); every
\* edge carries one label for each traversal of its pair by an inserted
\* sequence and its total_weight is the sum, over those traversals, of the
\* weights of the two adjacent positions; every traversed pair has its edge.
C6_EdgesMerged ==
    /\ \A e1, e2 \in EdgeIds :
          (/\ edges[e1].begin_node_id = edges[e2].begin_node_id
           /\ edges[e1].end_node_id = edges[e2].end_node_id) => e1 = e2
    /\ \A e \in EdgeIds :
          LET T == Traversals(edges[e].begin_node_id, edges[e].end_node_id)
          IN  /\ T # {}
              /\ edges[e].total_weight = SumOf(Contribution, T)
              /\ Range(edges[e].sequence_labels) = {t[1] - 1 : t \in T}
              /\ Len(edges[e].sequence_labels) = Cardinality(T)
    /\ \A i \in 1..Len(paths) : \A k \in 1..(Len(paths[i]) - 1) :
          HasEdge(paths[i][k], paths[i][k + 1])

\* a second sequence has gone over a pair that already had an edge
C6_Witness ==
    /\ fatal = NoError /\ op = "add_alignment"
    /\ \E e \in EdgeIds :
          /\ edges[e].sequence_labels = <<0, 1>>
          /\ edges[e].total_weight > 0

\* C7: the aligned relation is irreflexive, symmetric and closed: a node
\* aligned to a node aligned to A is aligned to A, unless it is A.
C7_AlignedSymmetricClosed ==
    \A a \in NodeIds :
        /\ a \notin Aligned(a)
        /\ \A b \in Aligned(a) :
              /\ a \in Aligned(b)
              /\ \A c \in Aligned(b) \ {a} : c \in Aligned(a)

\* a column of three mutually aligned nodes
C7_Witness ==
    /\ fatal = NoError /\ op = "add_alignment"
    /\ \E a \in NodeIds : Cardinality(Aligned(a)) >= 2

\* C8: once an add_alignment has made the graph cyclic, the program has
\* ended in visit_node's "Graph is not a DAG!" assertion and is_sorted_ is
\* false.
C8_CycleIsFatal ==
    HasCycle => (fatal = NotADag /\ ~is_sorted_ /\ op = "add_alignment")

\* an add_alignment closed a cycle of two or more nodes and was ended
C8_Witness ==
    /\ HasCycle /\ fatal = NotADag
    /\ \A e \in EdgeIds : edges[e].begin_node_id # edges[e].end_node_id

\* C10 (as claimed): generate_msa's rigorous ordering never trips the
\* in-progress assertion, and gives every node a column, two distinct nodes
\* the same one exactly when they are aligned to each other.
C10_RigorousSortCompletes ==
    Returned("generate_msa") =>
        /\ fatal = NoError
        /\ \A n \in NodeIds : At(msa_node_ids, n) # -1
        /\ \A a, b \in NodeIds :
              a # b => ((At(msa_node_ids, a) = At(msa_node_ids, b)) <=> b \in Aligned(a))

PathWeight(path) ==
    SumOf(LAMBDA k : EdgeWeight(path[k], path[k + 1]), 1..(Len(path) - 1))

\* weight of the heaviest directed path ending in node n (the graph is acyclic)
RECURSIVE HeaviestInto(_)
HeaviestInto(n) ==
    Max({0} \cup {edges[e].total_weight + HeaviestInto(edges[e].begin_node_id) :
                    e \in Range(At(nodes_, n).in_edges)})

MaxPathWeight == Max({HeaviestInto(n) : n \in NodeIds})

MaxInEdgeWeight(n) == Max({edges[e].total_weight : e \in Range(At(nodes_, n).in_edges)})

\* the scenario's two insertions, both of uniform weight 1
ScenarioBuilt ==
    /\ sequences = <<ScenarioFirst, ScenarioSecond>>
    /\ seq_weights = <<uniform_weights(ScenarioFirst, 1), uniform_weights(ScenarioSecond, 1)>>

\* C3 (as claimed): in the scenario generate_consensus returns the
\* first-inserted path, "ACGT".
C3_ScenarioReturnsFirstPath ==
    (ScenarioBuilt /\ Returned("generate_consensus")) => consensus_str = ScenarioFirst

\* C3 (amended): in the scenario a variant node 4 holding 'C' is aligned to
\* node 2, the paths 0,1,2,3 and 0,1,4,3 have equal weight, and
\* generate_consensus returns the last-inserted path, "ACCT".
C3_ScenarioReturnsLastPath ==
    ScenarioBuilt =>
        /\ num_nodes_ = 5
        /\ At(nodes_, 4).letter = "C" /\ At(nodes_, 4).type = 1
        /\ Aligned(4) = {2} /\ Aligned(2) = {4}
        /\ PathWeight(<<0, 1, 2, 3>>) = PathWeight(<<0, 1, 4, 3>>)
        /\ Returned("generate_consensus") =>
              (consensus_ = <<0, 1, 4, 3>> /\ consensus_str = ScenarioSecond)

\* generate_consensus has returned in the scenario
C3_Witness ==
    ScenarioBuilt /\ Returned("generate_consensus") /\ fatal = NoError

\* C5 (as claimed): the weight of the path in consensus_ is the maximum of
\* the weights of all directed paths of the graph.
C5_ConsensusIsHeaviestPath ==
    Returned("generate_consensus") => PathWeight(consensus_) = MaxPathWeight

\* C5 (amended): when no branch completion ran, every edge of the path in
\* consensus_ is an in-edge of maximal total_weight of its end node (the
\* predecessor is chosen by the edge's weight, not by the path's), and the
\* path's weight is at most the maximum over all directed paths.
C5_ConsensusTakesHeaviestInEdges ==
    (Returned("generate_consensus") /\ rank_arg = -1) =>
        /\ \A k \in 1..(Len(consensus_) - 1) :
              /\ HasEdge(consensus_[k], consensus_[k + 1])
              /\ EdgeWeight(consensus_[k], consensus_[k + 1])
                    = MaxInEdgeWeight(consensus_[k + 1])
        /\ PathWeight(consensus_) <= MaxPathWeight

\* a consensus of heaviest in-edges that is lighter than another path
C5_Witness ==
    /\ Returned("generate_consensus") /\ rank_arg = -1
    /\ Len(consensus_) >= 2
    /\ PathWeight(consensus_) < MaxPathWeight

\* traverse_heaviest_bundle has just filled consensus_
Traversed ==
    \/ Returned("generate_consensus")
    \/ Returned("generate_msa") /\ fatal = NoError /\ Len(dst) = num_sequences_ + 1

\* C9: when traverse_heaviest_bundle has returned, consensus_ is not empty,
\* each consecutive pair of it is joined by an edge from the first to the
\* second, and its last node has no outgoing edge.
C9_ConsensusIsPathToSink ==
    Traversed =>
        /\ Len(consensus_) >= 1
        /\ \A k \in 1..(Len(consensus_) - 1) : HasEdge(consensus_[k], consensus_[k + 1])
        /\ At(nodes_, consensus_[Len(consensus_)]).out_edges = <<>>

\* a consensus of three or more nodes reached through branch completion
C9_Witness ==
    /\ Returned("generate_consensus") /\ rank_arg # -1
    /\ Len(consensus_) >= 3

====
